---- MODULE Spec2Model ----
(***************************************************************************)
(* Model of the Flex backend (src/main.py): registration, login, bearer    *)
(* session resolution, score submission and the leaderboard, over a        *)
(* document store with the collections flexuser, session and score.        *)
(*                                                                         *)
(* Strings that the code takes apart (the Authorization header, display    *)
(* names) are sequences of atoms <<kind, n>>: the 7-character substring    *)
(* "Bearer ", one blank, or an opaque run of token / name characters.      *)
(***************************************************************************)
EXTENDS Integers, Sequences, FiniteSets, TLC

\* ---------------------------------------------------------------- bounds
MaxSessions == 2    \* session documents ever created
MaxScores == 1      \* score documents ever created

\* stored scores a leaderboard input holds at most
MaxTopLen == 4
\* distinct non-empty plaintexts handed to the password functions
MaxPlain == 10

\* ------------------------------------------------------------- constants
SESSION_TTL_SECONDS == 60 * 60 * 24 * 7
PASSWORD_SALT == "flex-salt"

\* ------------------------------------------------------------- strings
Bearer == <<"Bearer ", 0>>
Space == <<" ", 0>>
Chars(k) == <<"chars", k>>

RECURSIVE LStrip(_)
LStrip(s) == IF s # <<>> /\ Head(s) = Space THEN LStrip(Tail(s)) ELSE s

RECURSIVE RStrip(_)
RStrip(s) ==
    IF s # <<>> /\ s[Len(s)] = Space THEN RStrip(SubSeq(s, 1, Len(s) - 1)) ELSE s

\* str.strip()
Strip(s) == RStrip(LStrip(s))

IsNotBearer(a) == a # Bearer

\* str.replace("Bearer ", ""): every occurrence is removed
ReplaceBearer(s) == SelectSeq(s, IsNotBearer)

\* authorization.replace("Bearer ", "").strip()
BearerToken(authorization) == Strip(ReplaceBearer(authorization))

\* -------------------------------------------------------------- hashing
hash_password(password) == <<"sha256", PASSWORD_SALT, password>>

\* the digest of the password alone, without PASSWORD_SALT
verify_unsalted(password, password_hash) ==
    <<"sha256", "", password>> = password_hash

verify_password(password, password_hash) == hash_password(password) = password_hash

\* ------------------------------------------------------------ identifiers
\* An identifier is a number in one of two representations.
Forms == {"native", "str"}
Id(n, form) == [n |-> n, form |-> form]
Str(id) == [n |-> id.n, form |-> "str"]

\* ---------------------------------------------------------------- inputs
Passwords == {"pw1", "pw2"}
Emails == {"a@x", "b@x"}
ScoreValues == {-1, 0, 7}
\* the two values around the test of line 170
BoundaryValues == {-1, 0}
Limits == {-1, 0, 1}
\* register requests that can be between their check and their inserts
Slots == {1}

\* the characters of session k's token; a token not issued yet is unknown
TokenAtoms == {Chars(k) : k \in 1..MaxSessions}

\* Header(None) is NoHeader
NoHeader == [present |-> FALSE, value |-> <<>>]
HeaderOf(v) == [present |-> TRUE, value |-> v]

\* header values: empty, without a token, and a token alone, after "Bearer ",
\* before "Bearer ", after a blank, between two "Bearer ", after two "Bearer "
HeaderValues ==
    {<<>>, <<Bearer>>, <<Space>>}
        \cup {<<t>> : t \in TokenAtoms}
        \cup {<<Bearer, t>> : t \in TokenAtoms}
        \cup {<<t, Bearer>> : t \in TokenAtoms}
        \cup {<<Space, t>> : t \in TokenAtoms}
        \cup {<<Bearer, t, Bearer>> : t \in TokenAtoms}
        \cup {<<Bearer, Bearer, t>> : t \in TokenAtoms}

Headers == {NoHeader} \cup {HeaderOf(v) : v \in HeaderValues}

\* "Authorization: Bearer <token>"
BearerHeader(token) == HeaderOf(<<Bearer>> \o token)
ScoreHeaders == {NoHeader} \cup {BearerHeader(<<Chars(k)>>) : k \in 1..MaxSessions}

RegisterPayloads ==
    {[email |-> "a@x", display_name |-> <<Chars(1)>>, password |-> "pw1"],
     [email |-> "a@x", display_name |-> <<Space, Chars(2), Space>>, password |-> "pw2"],
     [email |-> "b@x", display_name |-> <<Chars(1)>>, password |-> "pw1"]}
LoginPayloads == [email : Emails, password : Passwords]

\* instants the clock is read at: the start, one TTL later, one second more
ClockValues == {0, SESSION_TTL_SECONDS, SESSION_TTL_SECONDS + 1}

\* ----------------------------------------------------------------- state
VARIABLES
    flexuser,       \* collection "flexuser", in insertion order
    session,        \* collection "session", in insertion order
    score,          \* collection "score", in insertion order
    nextId,         \* next identifier number the store hands out
    storedForm,     \* representation of _id inside stored user documents
    now,            \* int(time.time())
    reg,            \* register requests in flight, per slot
    resp            \* the last response sent

vars == <<flexuser, session, score, nextId, storedForm, now, reg, resp>>

\* ------------------------------------------------------- document store
Min(a, b) == IF a < b THEN a ELSE b

\* a document matches a filter {field: value, ...} when it has every field
\* of the filter with that value; the filter {} is <<>>
Matches(doc, filter) ==
    \A f \in DOMAIN filter : f \in DOMAIN doc /\ doc[f] = filter[f]

\* get_documents(collection, filter, limit): the matching documents in
\* insertion order, at most limit of them (limit 0: all)
get_documents(docs, filter, limit) ==
    LET Match(doc) == Matches(doc, filter)
        found == SelectSeq(docs, Match)
    IN IF limit = 0 THEN found ELSE SubSeq(found, 1, Min(limit, Len(found)))

\* create_document(collection, doc) appends; it returns the id as a string
create_document(docs, doc) == Append(docs, doc)
ReturnedId(n) == Id(n, "str")

\* secrets.token_urlsafe(32): a string no earlier session carries
NewToken == <<Chars(Len(session) + 1)>>

Idle == [pc |-> "idle"]

Init ==
    /\ flexuser = <<>>
    /\ session = <<>>
    /\ score = <<>>
    /\ nextId = 1
    /\ storedForm \in Forms
    /\ now = 0
    /\ reg = [r \in Slots |-> Idle]
    /\ resp = [op |-> "none", status |-> 0]

Respond(op, req, status, body) ==
    resp' = [op |-> op, req |-> req, status |-> status, body |-> body]

Detail(msg) == [detail |-> msg]

\* --------------------------------------------------- get_current_user
AuthError(msg) == [status |-> 401, detail |-> msg]

\* line 59 testing only for an absent header, not for an empty one
MissingTokenNoneOnly(authorization) == ~authorization.present

\* line 59
MissingToken(authorization) == ~authorization.present \/ authorization.value = <<>>

\* line 63
\* a lookup that leaves expired sessions out
FindLiveSession(token) ==
    LET Live(s) == s.token = token /\ s.expires_at >= now
    IN SubSeq(SelectSeq(session, Live), 1, Min(1, Len(SelectSeq(session, Live))))

FindSession(token) == get_documents(session, [token |-> token], 1)

\* line 68 with <= for <
ExpiredAtExpiry(sess) == sess.expires_at <= now

\* line 68
Expired(sess) == sess.expires_at < now

\* lines 72-79: the ordered user lookups
LookupUser(sess) ==
    LET first == get_documents(flexuser, [_id |-> sess.user_id], 1)
        second == IF first = <<>>
                  THEN get_documents(flexuser, [_id |-> sess.user_id], 1)
                  ELSE first
    IN IF second = <<>>
       THEN get_documents(flexuser, [email |-> sess.email], 1)
       ELSE second

\* line 85 left out
KeepPasswordHash(user) == user

\* user.pop("password_hash", None)
PopPasswordHash(user) == [f \in DOMAIN user \ {"password_hash"} |-> user[f]]

get_current_user(authorization) ==
    IF MissingToken(authorization)
    THEN AuthError("Missing token")
    ELSE LET sessions == FindSession(BearerToken(authorization.value))
         IN IF sessions = <<>>
            THEN AuthError("Invalid session")
            ELSE IF Expired(sessions[1])
            THEN AuthError("Session expired")
            ELSE LET users == LookupUser(sessions[1])
                 IN IF users = <<>>
                    THEN AuthError("User not found")
                    ELSE [status |-> 200, detail |-> "", user |-> PopPasswordHash(users[1])]

\* ----------------------------------------------------- session issuance
\* a session that ends at the instant it is issued
SessionDocNoTtl(user_id, token, email) ==
    [user_id |-> user_id, token |-> token, email |-> email, expires_at |-> now]

SessionDoc(user_id, token, email) ==
    [user_id |-> user_id, token |-> token, email |-> email,
     expires_at |-> now + SESSION_TTL_SECONDS]

\* a session store that keeps one session per email
ReplaceSession(user_id, token, email) ==
    LET OfOthers(s) == s.email # email
    IN create_document(SelectSeq(session, OfOthers), SessionDoc(user_id, token, email))

\* create_document("session", {...}) of register and of login
IssueSession(user_id, token, email) ==
    create_document(session, SessionDoc(user_id, token, email))

\* ------------------------------------------------------------- register
UserDoc(payload, id) ==
    [_id |-> id,
     email |-> payload.email,
     display_name |-> Strip(payload.display_name),
     password_hash |-> hash_password(payload.password),
     avatar |-> "None",
     high_score |-> 0,
     is_active |-> TRUE]

\* lines 105-106 filtering on the wrong field
EmailTakenWrongField(email) == get_documents(flexuser, [avatar |-> email], 1) # <<>>

\* lines 105-106
EmailTaken(email) == get_documents(flexuser, [email |-> email], 1) # <<>>

\* line 107
\* a register that inserts the user before it refuses
RegisterRefuseStoring(payload) ==
    /\ flexuser' = create_document(flexuser, UserDoc(payload, Id(nextId, storedForm)))
    /\ nextId' = nextId + 1
    /\ Respond("register", payload, 400, Detail("Email already registered"))
    /\ UNCHANGED <<session, score>>

RegisterRefuse(payload) ==
    /\ Respond("register", payload, 400, Detail("Email already registered"))
    /\ UNCHANGED <<flexuser, session, score, nextId>>

\* line 128
RegisterBody(payload, user_id, token) ==
    [token |-> token,
     user |-> [_id |-> user_id,
               email |-> payload.email,
               display_name |-> payload.display_name,
               high_score |-> 0]]

\* lines 109-128: the two inserts and the response
RegisterStore(payload) ==
    LET user_id == ReturnedId(nextId)
        token == NewToken
    IN /\ flexuser' = create_document(flexuser, UserDoc(payload, Id(nextId, storedForm)))
       /\ nextId' = nextId + 1
       /\ session' = IssueSession(user_id, token, payload.email)
       /\ Respond("register", payload, 200, RegisterBody(payload, user_id, token))
       /\ UNCHANGED score

CanCreate == Len(session) < MaxSessions

\* A register request takes the lowest free slot and runs its duplicate check.
RegisterCheck(r, payload) ==
    /\ reg[r].pc = "idle"
    /\ \A q \in Slots : q < r => reg[q].pc # "idle"
    /\ \/ /\ EmailTaken(payload.email)
          /\ RegisterRefuse(payload)
          /\ UNCHANGED reg
       \/ /\ ~EmailTaken(payload.email)
          /\ reg' = [reg EXCEPT ![r] = [pc |-> "insert", payload |-> payload]]
          /\ UNCHANGED <<flexuser, session, score, nextId, resp>>
    /\ UNCHANGED <<storedForm, now>>

\* RegisterInsert with the duplicate check repeated at the insert
RegisterInsertChecked(r) ==
    /\ reg[r].pc = "insert"
    /\ IF EmailTaken(reg[r].payload.email)
       THEN RegisterRefuse(reg[r].payload)
       ELSE CanCreate /\ RegisterStore(reg[r].payload)
    /\ reg' = [reg EXCEPT ![r] = Idle]
    /\ UNCHANGED <<storedForm, now>>

\* A register request that passed the check does its inserts and answers.
RegisterInsert(r) ==
    /\ reg[r].pc = "insert"
    /\ CanCreate
    /\ RegisterStore(reg[r].payload)
    /\ reg' = [reg EXCEPT ![r] = Idle]
    /\ UNCHANGED <<storedForm, now>>

\* register run from its first line to its last with no other request between
Register(payload) ==
    /\ \/ /\ EmailTaken(payload.email)
          /\ RegisterRefuse(payload)
       \/ /\ ~EmailTaken(payload.email)
          /\ CanCreate
          /\ RegisterStore(payload)
    /\ UNCHANGED <<storedForm, now, reg>>

\* ---------------------------------------------------------------- login
\* line 135
NoSuchUser == [status |-> 401, body |-> Detail("Invalid credentials")]

\* line 139 with a message of its own
WrongPasswordTold == [status |-> 401, body |-> Detail("Wrong password")]

\* line 139
WrongPassword == [status |-> 401, body |-> Detail("Invalid credentials")]

\* lines 151-159
LoginBody(user, token) ==
    [token |-> token,
     user |-> [_id |-> Str(user._id),
               email |-> user.email,
               display_name |-> user.display_name,
               high_score |-> user.high_score,
               avatar |-> user.avatar]]

login(payload) ==
    LET users == get_documents(flexuser, [email |-> payload.email], 1)
    IN IF users = <<>>
       THEN NoSuchUser
       ELSE IF ~verify_password(payload.password, users[1].password_hash)
       THEN WrongPassword
       ELSE [status |-> 200, body |-> LoginBody(users[1], NewToken), user |-> users[1]]

Login(payload) ==
    LET r == login(payload)
    IN /\ IF r.status = 200
          THEN /\ Len(session) < MaxSessions
               /\ session' = IssueSession(Str(r.user._id), r.body.token, r.user.email)
          ELSE UNCHANGED session
       /\ Respond("login", payload, r.status, r.body)
       /\ UNCHANGED <<flexuser, score, nextId, storedForm, now, reg>>

\* ------------------------------------------------------------------- /me
Me(authorization) ==
    LET r == get_current_user(authorization)
    IN /\ Respond("me", "-", r.status,
                  IF r.status = 200 THEN [user |-> r.user] ELSE Detail(r.detail))
       /\ UNCHANGED <<flexuser, session, score, nextId, storedForm, now, reg>>

\* --------------------------------------------------------- POST /scores
\* line 170 with <= for <
InvalidScoreZero(value) == value <= 0

\* line 170
InvalidScore(value) == value < 0

\* lines 174-178
ScoreDoc(user, value) ==
    [user_id |-> Str(user._id), display_name |-> user.display_name, value |-> value]

SubmitScore(authorization, value) ==
    LET r == get_current_user(authorization)
    IN /\ IF r.status # 200
          THEN Respond("submit_score", value, r.status, Detail(r.detail)) /\ UNCHANGED score
          ELSE IF InvalidScore(value)
          THEN /\ Respond("submit_score", value, 400, Detail("Score must be >= 0"))
               /\ UNCHANGED score
          ELSE /\ Len(score) < MaxScores
               /\ score' = create_document(score, ScoreDoc(r.user, value))
               /\ Respond("submit_score", value, 200, [status |-> "ok"])
       /\ UNCHANGED <<flexuser, session, nextId, storedForm, now, reg>>

\* ------------------------------------------------------ GET /scores/top
\* sorted(docs, key=value, reverse=True): stable, larger values first
RECURSIVE InsertSorted(_, _)
InsertSorted(sorted, d) ==
    IF sorted = <<>> THEN <<d>>
    ELSE IF Head(sorted).value >= d.value
    THEN <<Head(sorted)>> \o InsertSorted(Tail(sorted), d)
    ELSE <<d>> \o sorted

RECURSIVE SortedDesc(_)
SortedDesc(docs) ==
    IF docs = <<>> THEN <<>>
    ELSE InsertSorted(SortedDesc(SubSeq(docs, 1, Len(docs) - 1)), docs[Len(docs)])

\* s[:limit]
SliceTo(s, limit) ==
    IF limit >= 0 THEN SubSeq(s, 1, Min(limit, Len(s)))
    ELSE SubSeq(s, 1, Len(s) + limit)

top_scores(limit) ==
    LET docs == get_documents(score, <<>>, 0)
        docs_sorted == SliceTo(SortedDesc(docs), limit)
    IN [i \in 1..Len(docs_sorted) |->
           [display_name |-> docs_sorted[i].display_name, value |-> docs_sorted[i].value]]

TopScores(limit) ==
    /\ Respond("top_scores", limit, 200, [scores |-> top_scores(limit)])
    /\ UNCHANGED <<flexuser, session, score, nextId, storedForm, now, reg>>

\* ---------------------------------------------------------- environment
\* time passes
Tick ==
    /\ \E t \in ClockValues : t > now /\ now' = t
    /\ UNCHANGED <<flexuser, session, score, nextId, storedForm, reg, resp>>

RemoveAt(s, i) == SubSeq(s, 1, i - 1) \o SubSeq(s, i + 1, Len(s))

\* a user document is removed from the store from outside the program
StoreDeleteUser ==
    /\ \E i \in 1..Len(flexuser) : flexuser' = RemoveAt(flexuser, i)
    /\ UNCHANGED <<session, score, nextId, storedForm, now, reg, resp>>

\* a user document is deactivated in the store from outside the program
StoreDeactivateUser ==
    /\ \E i \in 1..Len(flexuser) :
          /\ flexuser[i].is_active
          /\ flexuser' = [flexuser EXCEPT ![i].is_active = FALSE]
    /\ UNCHANGED <<session, score, nextId, storedForm, now, reg, resp>>

\* -------------------------------------------------------- specifications
AuthRequests ==
    \/ \E p \in LoginPayloads : Login(p)
    \/ \E h \in Headers : Me(h)

ScoreRequests ==
    \/ \E h \in ScoreHeaders, v \in BoundaryValues : SubmitScore(h, v)
    \/ \E n \in Limits : TopScores(n)

\* Every route, register requests handled one at a time.
Next ==
    \/ \E p \in RegisterPayloads : Register(p)
    \/ AuthRequests
    \/ ScoreRequests
    \/ Tick

Spec == Init /\ [][Next]_vars

\* The routes that lead to scores, with every score value.
NextScores ==
    \/ \E p \in RegisterPayloads : Register(p)
    \/ \E h \in ScoreHeaders, v \in ScoreValues : SubmitScore(h, v)
    \/ \E n \in Limits : TopScores(n)
    \/ Tick

SpecScores == Init /\ [][NextScores]_vars

\* The routes that read or write users and sessions, with a register request
\* that other requests overtake between its duplicate check and its inserts.
NextRace ==
    \/ \E r \in Slots, p \in RegisterPayloads : RegisterCheck(r, p)
    \/ \E r \in Slots : RegisterInsert(r)
    \/ \E p \in RegisterPayloads : Register(p)
    \/ AuthRequests
    \/ Tick

SpecRace == Init /\ [][NextRace]_vars

\* The same routes, register one at a time, over a store whose user
\* documents are also deleted or deactivated from outside.
NextEnv ==
    \/ \E p \in RegisterPayloads : Register(p)
    \/ AuthRequests
    \/ Tick
    \/ StoreDeleteUser
    \/ StoreDeactivateUser

SpecEnv == Init /\ [][NextEnv]_vars

\* The leaderboard as a function of the stored scores: the store starts with
\* any list of scores (line 185 reads nothing else) and limit takes every
\* value around the list's length, negative ones included.
TopValues == {10, 50, 80}
TopLimits == (0 - MaxTopLen - 1)..(MaxTopLen + 1)

\* the i-th stored score belongs to the i-th player
StoredScore(i, value) ==
    [user_id |-> Id(i, "str"), display_name |-> <<Chars(i)>>, value |-> value]

ScoreLists ==
    UNION {{[i \in 1..n |-> StoredScore(i, f[i])] : f \in [1..n -> TopValues]} :
              n \in 0..MaxTopLen}

InitTop ==
    /\ score \in ScoreLists
    /\ flexuser = <<>>
    /\ session = <<>>
    /\ nextId = 1
    /\ storedForm = "str"
    /\ now = 0
    /\ reg = [r \in Slots |-> Idle]
    /\ resp = [op |-> "none", status |-> 0]

NextTop == \E n \in TopLimits : TopScores(n)

SpecTop == InitTop /\ [][NextTop]_vars

\* The password functions over plaintexts: the empty one and MaxPlain others.
Plaintexts == {<<>>} \cup {<<Chars(k)>> : k \in 1..MaxPlain}

\* a password to verify against the stored hash of a plaintext
InitHash ==
    /\ flexuser = <<>>
    /\ session = <<>>
    /\ score = <<>>
    /\ nextId = 1
    /\ storedForm = "str"
    /\ now = 0
    /\ reg = [r \in Slots |-> Idle]
    /\ \E p \in Plaintexts, q \in Plaintexts :
          resp = [op |-> "none", status |-> 0,
                  req |-> [password |-> p, plaintext |-> q]]

VerifyPassword ==
    /\ resp.op = "none"
    /\ Respond("verify_password", resp.req, 0,
               [ok |-> verify_password(resp.req.password,
                                       hash_password(resp.req.plaintext))])
    /\ UNCHANGED <<flexuser, session, score, nextId, storedForm, now, reg>>

NextHash == VerifyPassword

SpecHash == InitHash /\ [][NextHash]_vars

\* ---------------------------------------------------------------- claims
Last(s) == s[Len(s)]
IsPrefix(s, t) == Len(s) <= Len(t) /\ SubSeq(t, 1, Len(s)) = s
Sessions == 1..Len(session)
Users == 1..Len(flexuser)

\* the header carries a token (get_current_user gets past line 60)
CarriesToken(h) == h.present /\ h.value # <<>>

\* the stored user a session's user_id names, whatever the representation
NamesUser(sess, u) == u._id.n = sess.user_id.n

\* C1: resolve succeeds exactly when the bearer token is the token of a stored
\* session that has not expired and whose user_id names an active user record.
ValidSession(h) ==
    /\ CarriesToken(h)
    /\ \E i \in Sessions :
          /\ session[i].token = BearerToken(h.value)
          /\ now <= session[i].expires_at
          /\ \E j \in Users : NamesUser(session[i], flexuser[j]) /\ flexuser[j].is_active

C1_ResolveIffValidSession ==
    \A h \in Headers : (get_current_user(h).status = 200) <=> ValidSession(h)

\* C2: for a stored session with expiry E, resolve does not answer
\* "Session expired" at any now <= E, and answers it at every now > E.
C2_ExpiryBoundary ==
    \A h \in Headers : \A i \in Sessions :
        (CarriesToken(h) /\ session[i].token = BearerToken(h.value)) =>
            LET r == get_current_user(h)
            IN /\ now <= session[i].expires_at => r.detail # "Session expired"
               /\ now > session[i].expires_at => r = AuthError("Session expired")

\* /me has answered 200 at the exact expiry instant of every stored session
C2_Witness ==
    /\ resp.op = "me"
    /\ resp.status = 200
    /\ session # <<>>
    /\ \A i \in Sessions : session[i].expires_at = now

\* C3: no response of register, login, /me or /scores/top carries a
\* password_hash field, whichever lookup produced the user.
C3_NoPasswordHash ==
    /\ (resp.op \in {"register", "login", "me"} /\ resp.status = 200) =>
           /\ "password_hash" \notin DOMAIN resp.body
           /\ "password_hash" \notin DOMAIN resp.body.user
    /\ resp.op = "top_scores" =>
           \A i \in 1..Len(resp.body.scores) :
               DOMAIN resp.body.scores[i] = {"display_name", "value"}
    /\ resp.status \in {400, 401} => DOMAIN resp.body = {"detail"}

\* /me has answered with a user found by the email lookup (the id lookups
\* find nothing when the store keeps native ids)
C3_Witness ==
    /\ resp.op = "me"
    /\ resp.status = 200
    /\ storedForm = "native"
    /\ \E j \in Users : flexuser[j].email = resp.body.user.email

\* C4: with register requests handled one at a time, a register with an email already
\* registered answers 400 "Email already registered" and stores nothing, and
\* the user collection never holds two records with one email.
UniqueEmails ==
    \A i, j \in Users : flexuser[i].email = flexuser[j].email => i = j

C4_SequentialRegisterUnique ==
    [][/\ UniqueEmails'
       /\ \A p \in RegisterPayloads :
            (Register(p) /\ \E j \in Users : flexuser[j].email = p.email) =>
                /\ resp'.status = 400
                /\ resp'.body = Detail("Email already registered")
                /\ flexuser' = flexuser
                /\ session' = session]_vars

C4_Witness ==
    /\ resp.op = "register"
    /\ resp.status = 400
    /\ \E j \in Users : flexuser[j].email = resp.req.email

\* C5: a register request that has passed its duplicate check inserts its
\* user and its session and answers 200 whatever was inserted in between, so
\* two interleaved requests with one email leave two users with that email.
C5_RaceBothSucceed ==
    [][\A r \in Slots :
          (reg[r].pc = "insert" /\ reg'[r].pc = "idle") =>
              /\ resp'.op = "register"
              /\ resp'.status = 200
              /\ flexuser' = Append(flexuser, Last(flexuser'))
              /\ Last(flexuser').email = reg[r].payload.email
              /\ session' = Append(session, Last(session'))
              /\ NamesUser(Last(session'), Last(flexuser'))
              /\ Last(session').token = resp'.body.token]_vars

C5_Witness ==
    /\ Len(flexuser) = 2
    /\ flexuser[1].email = flexuser[2].email
    /\ Len(session) = 2
    /\ NamesUser(session[1], flexuser[1])
    /\ NamesUser(session[2], flexuser[2])
    /\ session[1].token # session[2].token
    /\ resp.op = "register"
    /\ resp.status = 200

\* C6: login with an unknown email and login with a known email and a wrong
\* password answer with the same status 401 and the same body, and neither
\* adds a session.
UnknownEmail(p) == \A j \in Users : flexuser[j].email # p.email

KnownEmailWrongPassword(p) ==
    /\ \E j \in Users : flexuser[j].email = p.email
    /\ \A j \in Users :
          flexuser[j].email = p.email =>
              flexuser[j].password_hash # hash_password(p.password)

C6_LoginFailuresIdentical ==
    /\ [](\A p, q \in LoginPayloads :
             (UnknownEmail(p) /\ KnownEmailWrongPassword(q)) =>
                 /\ login(p).status = 401
                 /\ login(q).status = login(p).status
                 /\ login(q).body = login(p).body)
    /\ [][(resp'.op = "login" /\ session' # session) =>
             \A p \in LoginPayloads :
                 Login(p) => ~UnknownEmail(p) /\ ~KnownEmailWrongPassword(p)]_vars

\* login has refused a wrong password for a registered email
C6_Witness ==
    /\ resp.op = "login"
    /\ resp.status = 401
    /\ \E j \in Users : flexuser[j].email = resp.req.email

\* C7: any two requests that resolve fails, for whichever reasons, get
\* identical responses: a 401 of /me is followed by the same 401 of /me.
C7_ResolveFailuresIdentical ==
    [][(/\ resp.op = "me" /\ resp.status = 401
        /\ resp'.op = "me" /\ resp'.status = 401) => resp'.body = resp.body]_vars

\* C8: resolve answers "Missing token" exactly for an absent or empty
\* header, and "Invalid session" exactly for a header whose token no stored
\* session carries, whatever the expiry and the users of the stored sessions.
C8_MissingThenInvalid ==
    \A h \in Headers :
        LET r == get_current_user(h)
            known == \E i \in Sessions : session[i].token = BearerToken(h.value)
        IN /\ (~h.present \/ h.value = <<>>) <=> r = AuthError("Missing token")
           /\ (CarriesToken(h) /\ ~known) <=> r = AuthError("Invalid session")

\* /me has answered "Invalid session" while only expired sessions are stored
C8_Witness ==
    /\ resp.op = "me"
    /\ resp.status = 401
    /\ resp.body = Detail("Invalid session")
    /\ session # <<>>
    /\ \A i \in Sessions : session[i].expires_at < now

\* C9: a successful register or login appends exactly one session, carrying
\* the returned token; no step changes or removes a stored session; and every
\* stored session, however many its user has, resolves until its own expiry.
Issued == resp'.op \in {"register", "login"} /\ resp'.status = 200 /\ resp' # resp

LiveSessionsResolve ==
    \A i \in Sessions :
        now <= session[i].expires_at =>
            get_current_user(BearerHeader(session[i].token)).status = 200

C9_IssuanceAdditive ==
    /\ []LiveSessionsResolve
    /\ [][IF session' = session
          THEN ~Issued
          ELSE /\ Issued
               /\ session' = Append(session, Last(session'))
               /\ Last(session').token = resp'.body.token
               /\ \A i \in Sessions : session[i].token # resp'.body.token]_vars

\* after a later login of the same user the earlier token still resolves
C9_Witness ==
    /\ resp.op = "login"
    /\ resp.status = 200
    /\ Len(session) = 2
    /\ session[1].user_id.n = session[2].user_id.n
    /\ get_current_user(BearerHeader(session[1].token)).status = 200
    /\ get_current_user(BearerHeader(session[2].token)).status = 200

\* C10: POST /scores: an unresolved token answers 401 and stores nothing; a
\* resolved user with value < 0 answers 400 and stores nothing; with value >= 0
\* it answers 200 and appends one score with that value and the user's
\* display_name.
C10_SubmitScore ==
    [][resp'.op = "submit_score" =>
          \A h \in ScoreHeaders, v \in ScoreValues :
              SubmitScore(h, v) =>
                  LET r == get_current_user(h)
                  IN /\ r.status # 200 => resp'.status = 401 /\ score' = score
                     /\ (r.status = 200 /\ v < 0) =>
                            /\ resp'.status = 400
                            /\ resp'.body = Detail("Score must be >= 0")
                            /\ score' = score
                     /\ (r.status = 200 /\ v >= 0) =>
                            /\ resp'.status = 200
                            /\ score' = Append(score, Last(score'))
                            /\ Last(score').value = v
                            /\ \E j \in Users :
                                  /\ PopPasswordHash(flexuser[j]) = r.user
                                  /\ Last(score').display_name = flexuser[j].display_name]_vars

\* a score of 0 has been accepted and stored
C10_Witness ==
    /\ resp.op = "submit_score"
    /\ resp.status = 200
    /\ resp.req = 0
    /\ Len(score) = 1
    /\ score[1].value = 0

\* the stored scores from the largest value to the smallest, equal values in
\* insertion order
Before(i, j) ==
    \/ score[i].value > score[j].value
    \/ score[i].value = score[j].value /\ i < j

Rank(i) == 1 + Cardinality({j \in 1..Len(score) : Before(j, i)})

Ranked ==
    [k \in 1..Len(score) |->
        LET i == CHOOSE j \in 1..Len(score) : Rank(j) = k
        IN [display_name |-> score[i].display_name, value |-> score[i].value]]

\* C11: GET /scores/top?limit=N answers at most N entries, largest value
\* first, equal values in insertion order, for every integer N and every list
\* of stored scores. No list has fewer than 0 entries, so for a negative N the
\* bound is read in the claim's favour, as "no entry".
AtMost(n) == IF n < 0 THEN 0 ELSE n

C11_TopAtMostN ==
    resp.op = "top_scores" =>
        /\ Len(resp.body.scores) <= AtMost(resp.req)
        /\ resp.body.scores = SubSeq(Ranked, 1, Len(resp.body.scores))

\* the same for the limits that are not negative, where the answer is the
\* first N entries of that order, or all of them when there are fewer
C11_TopNonNegative ==
    (resp.op = "top_scores" /\ resp.req >= 0) =>
        resp.body.scores = SubSeq(Ranked, 1, Min(resp.req, Len(score)))

\* C12: a password verifies against the hash of a plaintext exactly when it
\* is that plaintext, PASSWORD_SALT being the same for every call.
C12_VerifyIffSamePlaintext ==
    resp.op = "verify_password" =>
        (resp.body.ok <=> resp.req.password = resp.req.plaintext)

\* two different non-empty plaintexts have been told apart
C12_Witness ==
    /\ resp.op = "verify_password"
    /\ resp.req.password # <<>>
    /\ resp.req.plaintext # <<>>
    /\ resp.req.password # resp.req.plaintext
    /\ ~resp.body.ok

ActiveUserWith(email) ==
    \E j \in Users : flexuser[j].email = email /\ flexuser[j].is_active

\* C13: register answers "Email already registered" exactly when an active
\* user has the email; otherwise it stores one user with high_score 0,
\* is_active true and the hash of the password, stores one session of that
\* user, and answers that session's token.
C13_RegisterIffNoActiveUser ==
    [][resp'.op = "register" =>
          \A p \in RegisterPayloads :
              Register(p) =>
                  IF ActiveUserWith(p.email)
                  THEN /\ resp'.status = 400
                       /\ resp'.body = Detail("Email already registered")
                       /\ UNCHANGED <<flexuser, session, score>>
                  ELSE /\ resp'.status = 200
                       /\ flexuser' = Append(flexuser, Last(flexuser'))
                       /\ Last(flexuser').email = p.email
                       /\ Last(flexuser').high_score = 0
                       /\ Last(flexuser').is_active
                       /\ Last(flexuser').password_hash = hash_password(p.password)
                       /\ session' = Append(session, Last(session'))
                       /\ Last(session').user_id.n = Last(flexuser')._id.n
                       /\ resp'.body.token = Last(session').token
                       /\ score' = score]_vars

\* the stored users a login request's email and password belong to
OwnersOf(p) ==
    {j \in Users : /\ flexuser[j].email = p.email
                   /\ verify_password(p.password, flexuser[j].password_hash)}

\* C14: login answers 200 with a new session of that user exactly when some
\* stored user has the email and the password verifies against that user's
\* password_hash, two users sharing an email included: every registered user
\* logs in with their own password.
C14_LoginIffOwnPassword ==
    [][resp'.op = "login" =>
          \A p \in LoginPayloads :
              Login(p) =>
                  IF OwnersOf(p) = {}
                  THEN resp'.status = 401 /\ session' = session
                  ELSE /\ resp'.status = 200
                       /\ session' = Append(session, Last(session'))
                       /\ \E j \in OwnersOf(p) :
                             Last(session').user_id.n = flexuser[j]._id.n]_vars

\* the three steps as the claim words them: the stored _id equal to the
\* session's user_id as it stands, then equal to it in string form, then the
\* session's email
HasId(u, id) == u._id = id
HasStrId(u, id) == Str(u._id) = Str(id)

ClaimedLookup(sess) ==
    LET ById(u) == HasId(u, sess.user_id)
        ByStrId(u) == HasStrId(u, sess.user_id)
        ByEmail(u) == u.email = sess.email
        a == SelectSeq(flexuser, ById)
        b == IF a = <<>> THEN SelectSeq(flexuser, ByStrId) ELSE a
    IN IF b = <<>> THEN SelectSeq(flexuser, ByEmail) ELSE b

\* C15: the user of an unexpired session is the first one found by native id
\* equality, else by the string form of the id, else by the session's email;
\* resolve answers "User not found" exactly when the three steps find no one.
C15_ThreeStepLookup ==
    \A i \in Sessions :
        ~Expired(session[i]) =>
            LET r == get_current_user(BearerHeader(session[i].token))
                found == ClaimedLookup(session[i])
            IN IF found = <<>>
               THEN r = AuthError("User not found")
               ELSE r.status = 200 /\ r.user = PopPasswordHash(found[1])

\* C16: a session is stored with expires_at = the clock at issuance + 604800,
\* by register and by login alike, and no step changes the expires_at of a
\* stored session.
C16_ExpiresAtIssuancePlusTtl ==
    [][/\ Len(session') >= Len(session)
       /\ \A i \in Sessions : session'[i].expires_at = session[i].expires_at
       /\ \A i \in (Len(session) + 1)..Len(session') :
              /\ resp'.op \in {"register", "login"}
              /\ resp'.status = 200
              /\ now' = now
              /\ session'[i].expires_at = now + 604800]_vars

\* register issued a session at 0 and login issued one a week and a second
\* later
C16_Witness ==
    /\ Len(session) = 2
    /\ resp.op = "login"
    /\ resp.status = 200
    /\ session[1].expires_at = 604800
    /\ session[2].expires_at = 604801 + 604800

\* the token of every stored session past its expires_at answers
\* "Session expired"
ExpiredAnswersExpired ==
    \A i \in Sessions :
        session[i].expires_at < now =>
            get_current_user(BearerHeader(session[i].token)) = AuthError("Session expired")

\* C17: the clock not going back, a session past its expires_at stays stored
\* as it is and past its expires_at through every step, and its token keeps
\* answering "Session expired".
C17_ExpiredStaysExpired ==
    /\ []ExpiredAnswersExpired
    /\ [][\A i \in Sessions :
              session[i].expires_at < now =>
                  /\ i <= Len(session')
                  /\ session'[i] = session[i]
                  /\ session'[i].expires_at < now']_vars

\* a score was stored while session 1 was live, session 2 was issued by a
\* login after session 1 expired, and the token of session 1 was then refused
C17_Witness ==
    /\ resp.op = "me"
    /\ resp.body = Detail("Session expired")
    /\ Len(score) = 1
    /\ Len(session) = 2
    /\ session[1].expires_at < session[2].expires_at - 604800

\* the header value without one leading "Bearer "
WithoutPrefix(v) == IF v # <<>> /\ Head(v) = Bearer THEN Tail(v) ELSE v

\* the outcome of looking a token up as it stands
OutcomeOf(token) ==
    IF FindSession(token) = <<>> THEN AuthError("Invalid session")
    ELSE get_current_user(BearerHeader(token))

\* C18: resolve removes one leading "Bearer " and nothing else: "Bearer T" and
\* "T" have the same outcome, and a value that does not start with "Bearer "
\* is looked up whole, a "Bearer " elsewhere in it staying where it is.
C18_OnlyLeadingBearerStripped ==
    \A h \in Headers :
        CarriesToken(h) => get_current_user(h) = OutcomeOf(WithoutPrefix(h.value))

\* C19: the token of a session issued for a user resolves, when it resolves,
\* to the record of that user and of no other, also after two register
\* requests raced to the same email.
C19_TokenResolvesToOwnUser ==
    \A i \in Sessions :
        LET r == get_current_user(BearerHeader(session[i].token))
        IN r.status = 200 => r.user._id.n = session[i].user_id.n

\* the answer of a request that failed or only read
FailedOrRead(r) ==
    \/ r.op = "register" /\ r.status = 400
    \/ r.op = "login" /\ r.status = 401
    \/ r.op = "submit_score" /\ r.status = 401
    \/ r.op \in {"me", "top_scores"}

\* C20: a register refused for a duplicate email, a login refused, a resolve
\* (refused or not) and a GET /scores/top leave the flexuser, session and score
\* collections as they were.
C20_FailuresAndReadsChangeNothing ==
    [][FailedOrRead(resp') => UNCHANGED <<flexuser, session, score>>]_vars

\* a register was refused while users, sessions and scores were stored
C20_Witness ==
    /\ resp.op = "register"
    /\ resp.status = 400
    /\ Len(flexuser) = 2
    /\ Len(session) = 2
    /\ Len(score) = 1

====
